---- MODULE Spec2Model ----
(***************************************************************************)
(* State-machine model of MComCore (mobile_env/core/base.py): reset() and  *)
(* step(), with step() split into the phases its code runs in sequence.    *)
(*                                                                         *)
(* Numbers.  Split ratios are fixed-point: the integer r stands for the    *)
(* ratio r / RatioDen, so r is in [0,1] iff 0 <= r <= RatioDen.  Every     *)
(* bandwidth, compute, rate and demand amount is kept multiplied by        *)
(* RatioDen, which makes bs.bw * ratio exact.  Distances are compared by   *)
(* their squares (sqrt is strictly increasing).  None is -1.               *)
(***************************************************************************)
EXTENDS Integers, Sequences, FiniteSets, TLC

\* ------------------------------------------------------------------ bounds
GridMax == 4
EP_MAX_TIME == 2
RatioDen == 2
MaxDemand == 3
MaxDeparture == 3
MaxEpisodes == 1
\* bounds of the drain scenario of section 8: drains in a row, jobs queued
MaxDrains == 3
MaxQueued == 2

\* ------------------------------------------------------- scenario (config)
\* self.stations / self.users / self.sensors in dict (insertion) order
StationOrder == <<1, 2>>
UserOrder == <<1, 2>>
SensorOrder == <<1>>

Stations == {StationOrder[i] : i \in 1..Len(StationOrder)}
Users == {UserOrder[i] : i \in 1..Len(UserOrder)}
Sensors == {SensorOrder[i] : i \in 1..Len(SensorOrder)}

\* BaseStation.x, .y / .bw / .computational_power / transmit power.  The bandwidths
\* are even, so that the equal shares of two devices are exact.
BsPos == <<  <<0, 0>>, <<GridMax, 0>>  >>
BsBw == <<4, 2>>
BsComp == <<1, 2>>
BsTx == <<10, 10>>

\* Sensor.x, .y (sensors never move) and the devices' snr_threshold
SensorPos == <<  <<1, 0>>  >>
SensorSnrTr == <<2>>
UeSnrTr == <<2, 1>>

\* config["e2e_delay_threshold"]
E2E_DELAY_THRESHOLD == 0

\* Python's None, kept apart from every time and every sum (all >= 0)
None == 0 - 1

\* ----------------------------------------------------------------- inputs
Positions == {<<x, 0>> : x \in 1..(GridMax - 1)}
\* movement.initial_position(ue)
InitialPositions == {<<GridMax \div 2, 0>>, <<GridMax \div 2 + 1, 0>>}
\* arrival.arrival(ue), arrival.departure(ue): a service window [stime, extime)
Windows == {<<0, MaxDeparture>>, <<1, 2>>}
\* the ratios an action can carry: the in-range grid and one value off each end
ValidRatios == 0..RatioDen
\* the actions a caller passes: the two diagonals of the in-range grid, and one
\* action with a ratio off each end of [0,1]
ValidActions == {a \in ValidRatios \X ValidRatios : a[1] = a[2] \/ a[1] + a[2] = RatioDen}
InvalidActions == {<<0 - 1, 0>>, <<0, RatioDen + 1>>}
\* job sizes (communication demand, computation demand) the generator samples
Sizes == {MaxDemand}
JobSizes == Sizes \X Sizes
NoJob == <<0, 0>>

\* ---------------------------------------------------------------- helpers
Min(a, b) == IF a <= b THEN a ELSE b
Max(a, b) == IF a >= b THEN a ELSE b

RECURSIVE Log2Floor(_)
Log2Floor(n) == IF n <= 1 THEN 0 ELSE 1 + Log2Floor(n \div 2)

RECURSIVE SumSeq(_)
SumSeq(s) == IF s = <<>> THEN 0 ELSE Head(s) + SumSeq(Tail(s))

RECURSIVE SetToSeq(_)
\* ascending enumeration of a finite set of integers
SetToSeq(S) ==
    IF S = {} THEN <<>>
    ELSE LET m == CHOOSE m \in S : \A o \in S : m <= o
         IN <<m>> \o SetToSeq(S \ {m})

Range(s) == {s[i] : i \in 1..Len(s)}
EmptyMap == [p \in {} |-> 0]

\* ------------------------------------------------------------------ state
VARIABLES
    ep_max_time,          \* self.EP_MAX_TIME
    returned,             \* the caller's sum of the rewards step() returned in the episode
    time,                 \* self.time
    episodes,             \* number of reset() calls since construction
    call,                 \* a direct call of one method: its arguments and its outcome
    pc,                   \* position of the step() call in progress, "idle" if none
    actions,              \* the actions argument of the step() call in progress
    depth,                \* number of re-entries step() made in the call in progress
    phases,               \* phases the timestep in progress has completed, in order
    result,               \* outcome of the last call
    entry,                \* Snapshot when the running or failed call began, else NoEntry
    stime, extime,        \* ue.stime, ue.extime
    pos,                  \* (ue.x, ue.y)
    max_departure,        \* self.max_departure
    active,               \* self.active
    connections,          \* self.connections
    connections_sensor,   \* self.connections_sensor
    resource_allocations, \* self.resource_allocations
    locals,               \* step()'s locals bandwidth_for_ues .. computational_power_for_sensors
    presented,            \* station_allocation's conns: the order the last scheduling calls
                          \* iterated each connection set in
    moved,                \* the devices movement.move was called for in the last timestep,
                          \* in call order
    datarates,            \* self.datarates
    datarates_sensor,     \* self.datarates_sensor
    macro,                \* self.macro
    macro_sensor,         \* self.macro_sensor
    jobs,                 \* job records, indexed by job id (packet_df_ue and packet_df_sensor)
    uplink_ue,            \* ue.data_buffer_uplink
    uplink_sensor,        \* sensor.data_buffer_uplink
    bsq,                  \* bs.transferred_jobs_ue/_sensor, bs.accomplished_jobs_ue/_sensor
    delayed_ue_jobs,      \* self.delayed_ue_jobs
    delayed_sensor_jobs,  \* self.delayed_sensor_jobs
    utilities,            \* self.utilities
    utilities_sensor,     \* self.utilities_sensor
    drains,               \* budget consumed by each drain of the last transfer and processing
    rewards,              \* step()'s local rewards
    episode_reward,       \* self.episode_reward
    logs                  \* the telemetry logs

ctl == <<pc, actions, depth, phases, result, entry, episodes>>
arrivals == <<stime, extime, max_departure>>
conns == <<connections, connections_sensor>>
rates == <<datarates, datarates_sensor, macro, macro_sensor>>
queues == <<jobs, uplink_ue, uplink_sensor, bsq>>
delayed == <<delayed_ue_jobs, delayed_sensor_jobs>>
utils == <<utilities, utilities_sensor>>
sim == <<time, arrivals, pos, active, conns, resource_allocations, locals, presented, moved, rates,
         queues, drains, delayed, utils, rewards, episode_reward, logs>>
cfg == <<ep_max_time>>
vars == <<cfg, returned, ctl, call, sim>>

\* the whole simulation state, as one value
Snapshot ==
    [time |-> time, arrivals |-> arrivals, pos |-> pos, active |-> active,
     connections |-> connections, connections_sensor |-> connections_sensor,
     resource_allocations |-> resource_allocations, locals |-> locals,
     datarates |-> datarates, datarates_sensor |-> datarates_sensor,
     macro |-> macro, macro_sensor |-> macro_sensor,
     jobs |-> jobs, uplink_ue |-> uplink_ue, uplink_sensor |-> uplink_sensor, bsq |-> bsq,
     drains |-> drains, delayed_ue_jobs |-> delayed_ue_jobs,
     delayed_sensor_jobs |-> delayed_sensor_jobs,
     utilities |-> utilities, utilities_sensor |-> utilities_sensor,
     rewards |-> rewards, episode_reward |-> episode_reward, logs |-> logs]

\* no call is in progress and none has failed
NoEntry == [none |-> TRUE]

\* no method has been called directly
NoCall == [op |-> "none", state |-> "none"]

\* a call that raised returns nothing
NoReturn == [none |-> TRUE]

\* ---------------------------------------------------------- channel model
\* squared Euclidean distance between two points
Dist2(p, q) == (p[1] - q[1]) * (p[1] - q[1]) + (p[2] - q[2]) * (p[2] - q[2])

\* channel.snr(bs, device): transmit power over a path loss that grows with distance
Snr(b, p) == BsTx[b] \div (1 + Dist2(BsPos[b], p))

\* channel.data_rate(bs, device, snr, bandwidth): bandwidth * log2(1 + snr), 0 without bandwidth
DataRate(snr, bw) == IF bw <= 0 THEN 0 ELSE bw * Log2Floor(1 + snr)

\* ------------------------------------------------------------ connectivity
\* the station that the loop over self.stations.values() leaves in closest_bs:
\* the first one, in dict order, at minimal distance (the update is on <)
ClosestBs(p) ==
    LET n == Len(StationOrder)
        d(i) == Dist2(BsPos[StationOrder[i]], p)
        k == CHOOSE i \in 1..n :
                 /\ \A j \in 1..n : j < i => d(j) > d(i)
                 /\ \A j \in 1..n : j > i => d(j) >= d(i)
    IN StationOrder[k]

\* a check that also keeps a pair whose SNR equals the threshold
check_connectivity_inclusive(b, u) == Snr(b, pos[u]) >= UeSnrTr[u]

\* check_connectivity(bs, ue)
check_connectivity(b, u) == Snr(b, pos[u]) > UeSnrTr[u]

\* check_connectivity_sensor(bs, sensor)
check_connectivity_sensor(b, s) == Snr(b, SensorPos[s]) > SensorSnrTr[s]

\* connect_bs_ue(): every user is added to the connection set of its closest station
connect_bs_ue(c) ==
    [b \in Stations |-> c[b] \cup {u \in Users : ClosestBs(pos[u]) = b}]

\* connect_bs_sensor()
connect_bs_sensor(c) ==
    [b \in Stations |-> c[b] \cup {s \in Sensors : ClosestBs(SensorPos[s]) = b}]

\* an update that releases nothing
update_connections_keep(c) == c

\* update_connections(): keep the pairs that pass check_connectivity
update_connections(c) ==
    [b \in Stations |-> {u \in c[b] : check_connectivity(b, u)}]

\* update_connections_sensors()
update_connections_sensors(c) ==
    [b \in Stations |-> {s \in c[b] : check_connectivity_sensor(b, s)}]

\* a limit test that lets one more timestep through
time_is_up_late == time > Min(ep_max_time, max_departure)

\* time_is_up
time_is_up == time >= Min(ep_max_time, max_departure)

\* --------------------------------------------------------- resource split
\* handler.action(self, actions): the two split ratios of the action; the empty
\* action {} of a re-entry yields no ratios of its own and is given in-range ones
HandlerAction(a, r) == IF a = <<>> THEN r ELSE a

\* a split that takes the UE bandwidth share from the compute ratio and vice versa
apply_action_swapped(b, bw, comp) ==
    [bandwidth_for_ues |-> BsBw[b] * comp,
     bandwidth_for_sensors |-> BsBw[b] * (RatioDen - comp),
     computational_power_for_ues |-> BsComp[b] * bw,
     computational_power_for_sensors |-> BsComp[b] * (RatioDen - bw)]

\* apply_action(bs, bandwidth_allocation, computational_allocation), past its range check
apply_action(b, bw, comp) ==
    [bandwidth_for_ues |-> BsBw[b] * bw,
     bandwidth_for_sensors |-> BsBw[b] * (RatioDen - bw),
     computational_power_for_ues |-> BsComp[b] * comp,
     computational_power_for_sensors |-> BsComp[b] * (RatioDen - comp)]

\* a range check that lets every ratio through
NoRangeCheck(bw, comp) == TRUE

\* the range check of apply_action: it raises ValueError when this is false
AllocationsInRange(bw, comp) == 0 <= bw /\ bw <= RatioDen /\ 0 <= comp /\ comp <= RatioDen

\* apply_action as a whole: what a call raises and what it returns
apply_action_call(b, bw, comp) ==
    IF AllocationsInRange(bw, comp)
    THEN [raised |-> "none", ret |-> apply_action(b, bw, comp)]
    ELSE [raised |-> "ValueError", ret |-> NoReturn]

\* ------------------------------------------------------------- scheduling
\* scheduler.share_ue / share_sensor (resource-fair policy): the pool is divided
\* evenly among the n connected devices, so each gets its full-pool rate over n
Share(maxrate, n) == maxrate \div n

\* station_allocation(bs, bandwidth_for_ues): (bs, ue) -> rate for the UEs connected to bs
station_allocation(b, pool) ==
    [p \in {<<b, u>> : u \in connections[b]} |->
        Share(DataRate(Snr(b, pos[p[2]]), pool), Cardinality(connections[b]))]

\* station_allocation_sensor(bs, bandwidth_for_sensors)
station_allocation_sensor(b, pool) ==
    [p \in {<<b, s>> : s \in connections_sensor[b]} |->
        Share(DataRate(Snr(b, SensorPos[p[2]]), pool), Cardinality(connections_sensor[b]))]

\* the pool argument step() hands to station_allocation(bs, .) in its loop over the
\* stations: the local bandwidth_for_ues, which the allocation loop before it left
\* at the value of the last station
SchedPoolUe(b) == locals.bandwidth_for_ues

\* likewise the argument of station_allocation_sensor(bs, .)
SchedPoolSensor(b) == locals.bandwidth_for_sensors

\* the rate table left as the previous timestep filled it
KeptDatarates == datarates

\* `self.datarates = {}` and `self.datarates_sensor = {}` before the loop
ClearedDatarates == EmptyMap
ClearedDataratesSensor == EmptyMap

\* self.datarates after the loop `self.datarates.update(station_allocation(bs, ..))`
AllDatarates ==
    [p \in {<<b, u>> : b \in Stations, u \in Users} \cap
           UNION {DOMAIN station_allocation(b, SchedPoolUe(b)) : b \in Stations} |->
        station_allocation(p[1], SchedPoolUe(p[1]))[p]] @@ ClearedDatarates

\* self.datarates_sensor after its loop
AllDataratesSensor ==
    [p \in {<<b, s>> : b \in Stations, s \in Sensors} \cap
           UNION {DOMAIN station_allocation_sensor(b, SchedPoolSensor(b)) : b \in Stations} |->
        station_allocation_sensor(p[1], SchedPoolSensor(p[1]))[p]] @@ ClearedDataratesSensor

\* an aggregation that adds the epsilon once per device
MacroSumOneEps(bs, d, dr) ==
    LET on == SetToSeq({b \in Range(bs) : <<b, d>> \in DOMAIN dr})
    IN [rate |-> SumSeq([k \in 1..Len(on) |-> dr[<<on[k], d>>]]),
        eps |-> IF on = <<>> THEN 0 ELSE 1]

RECURSIVE MacroSum(_, _, _)
\* the Counter entry of device d: over its connections, the rates summed and one
\* epsilon counted per connection
MacroSum(bs, d, dr) ==
    IF bs = <<>> THEN [rate |-> 0, eps |-> 0]
    ELSE LET rest == MacroSum(Tail(bs), d, dr)
         IN IF <<Head(bs), d>> \in DOMAIN dr
            THEN [rate |-> rest.rate + dr[<<Head(bs), d>>], eps |-> rest.eps + 1]
            ELSE rest

\* macro_datarates(datarates) / macro_datarates_sensor(datarates_sensor)
macro_datarates(dr) ==
    [d \in {p[2] : p \in DOMAIN dr} |-> MacroSum(StationOrder, d, dr)]

\* Counter lookup self.macro[ue]: 0 for a device without an entry
MacroRate(m, d) == IF d \in DOMAIN m THEN m[d].rate ELSE 0

\* ----------------------------------------------------------- job lifecycle
\* job_generator: a new job record (remaining = total, no timestamps yet)
NewJob(kind, owner, size) ==
    [kind |-> kind, owner |-> owner, creation |-> time,
     total_comm |-> size[1], rem_comm |-> size[1],
     total_comp |-> size[2], rem_comp |-> size[2],
     transferred |-> None, accomplished |-> None]

RECURSIVE AddJobsAtHead(_, _, _, _)
\* a job generation that puts the new job at the head of the uplink buffer
AddJobsAtHead(devs, kind, gen, st) ==
    IF devs = <<>> THEN st
    ELSE LET d == Head(devs)
             nst == IF gen[d] = NoJob THEN st
                    ELSE [jobs |-> Append(st.jobs, NewJob(kind, d, gen[d])),
                          up |-> [st.up EXCEPT ![d] = <<Len(st.jobs) + 1>> \o @]]
         IN AddJobsAtHead(Tail(devs), kind, gen, nst)

RECURSIVE AddJobs(_, _, _, _)
\* generate_job_ue / generate_job_sensor for the devices devs in order: st is
\* [jobs, up], gen[d] the size sampled for d (NoJob when the Bernoulli trial fails)
AddJobs(devs, kind, gen, st) ==
    IF devs = <<>> THEN st
    ELSE LET d == Head(devs)
             nst == IF gen[d] = NoJob THEN st
                    ELSE [jobs |-> Append(st.jobs, NewJob(kind, d, gen[d])),
                          up |-> [st.up EXCEPT ![d] = Append(@, Len(st.jobs) + 1)]]
         IN AddJobs(Tail(devs), kind, gen, nst)

\* the remaining demand a drain works on, and the job after serving / completing it
Remaining(j, what) == IF what = "comm" THEN j.rem_comm ELSE j.rem_comp
\* a drain step that takes the amount off the remaining demand twice
ServedTwice(j, what, amount) ==
    IF what = "comm" THEN [j EXCEPT !.rem_comm = @ - 2 * amount]
    ELSE [j EXCEPT !.rem_comp = @ - 2 * amount]
Served(j, what, amount) ==
    IF what = "comm" THEN [j EXCEPT !.rem_comm = @ - amount]
    ELSE [j EXCEPT !.rem_comp = @ - amount]
\* a completion that stamps the job with its creation time
CompletedAtCreation(j, what) ==
    IF what = "comm" THEN [j EXCEPT !.transferred = j.creation]
    ELSE [j EXCEPT !.accomplished = j.creation]
Completed(j, what) ==
    IF what = "comm" THEN [j EXCEPT !.transferred = time]
    ELSE [j EXCEPT !.accomplished = time]

\* a drain that stops after the head job, whatever budget is left
DrainNoCarry(q, cap, jt, what) ==
    IF q = <<>> \/ cap <= 0 THEN [q |-> q, done |-> <<>>, jobs |-> jt, used |-> 0]
    ELSE LET id == Head(q)
             consumed == Min(cap, Remaining(jt[id], what))
             served == Served(jt[id], what, consumed)
         IN IF Remaining(served, what) = 0
            THEN [q |-> Tail(q), done |-> <<id>>,
                  jobs |-> [jt EXCEPT ![id] = Completed(served, what)], used |-> consumed]
            ELSE [q |-> q, done |-> <<>>, jobs |-> [jt EXCEPT ![id] = served],
                  used |-> consumed]

RECURSIVE DrainLifo(_, _, _, _)
\* a drain that serves the job inserted last first
DrainLifo(q, cap, jt, what) ==
    IF q = <<>> \/ cap <= 0 THEN [q |-> q, done |-> <<>>, jobs |-> jt, used |-> 0]
    ELSE LET id == q[Len(q)]
             consumed == Min(cap, Remaining(jt[id], what))
             served == Served(jt[id], what, consumed)
         IN IF Remaining(served, what) = 0
            THEN LET r == DrainLifo(SubSeq(q, 1, Len(q) - 1), cap - consumed,
                                    [jt EXCEPT ![id] = Completed(served, what)], what)
                 IN [q |-> r.q, done |-> <<id>> \o r.done, jobs |-> r.jobs,
                     used |-> consumed + r.used]
            ELSE [q |-> q, done |-> <<>>, jobs |-> [jt EXCEPT ![id] = served],
                  used |-> consumed]

RECURSIVE Drain(_, _, _, _)
\* the rate-limited drain of queue q with budget cap: serves the head job, pops
\* and stamps it when its remaining demand reaches 0 and goes on with the budget
\* left, stops at a head it cannot finish.  Yields the queue left, the jobs
\* completed (in order), the job table and the budget consumed.
Drain(q, cap, jt, what) ==
    IF q = <<>> \/ cap <= 0 THEN [q |-> q, done |-> <<>>, jobs |-> jt, used |-> 0]
    ELSE LET id == Head(q)
             consumed == Min(cap, Remaining(jt[id], what))
             served == Served(jt[id], what, consumed)
         IN IF Remaining(served, what) = 0
            THEN LET r == Drain(Tail(q), cap - consumed,
                                [jt EXCEPT ![id] = Completed(served, what)], what)
                 IN [q |-> r.q, done |-> <<id>> \o r.done, jobs |-> r.jobs,
                     used |-> consumed + r.used]
            ELSE [q |-> q, done |-> <<>>, jobs |-> [jt EXCEPT ![id] = served],
                  used |-> consumed]

RECURSIVE ConnPairs(_, _)
\* the (station, device) connections in service order: stations in dict order,
\* the devices of a station in ascending id order
ConnPairs(bs, c) ==
    IF bs = <<>> THEN <<>>
    ELSE [i \in 1..Cardinality(c[Head(bs)]) |-> <<Head(bs), SetToSeq(c[Head(bs)])[i]>>]
         \o ConnPairs(Tail(bs), c)

RECURSIVE TransferPairs(_, _, _)
\* transfer_data_uplink for one pool: per connection, the device's uplink buffer is
\* drained at the connection's data rate into the station's transferred-jobs queue;
\* st is [jobs, up, tq, used], used[pair] the budget the pair's drain consumed
TransferPairs(pairs, dr, st) ==
    IF pairs = <<>> THEN st
    ELSE LET b == Head(pairs)[1]
             d == Head(pairs)[2]
             r == Drain(st.up[d], dr[Head(pairs)], st.jobs, "comm")
         IN TransferPairs(Tail(pairs), dr,
                [jobs |-> r.jobs,
                 up |-> [st.up EXCEPT ![d] = r.q],
                 tq |-> [st.tq EXCEPT ![b] = @ \o r.done],
                 used |-> [st.used EXCEPT ![Head(pairs)] = r.used]])

RECURSIVE ProcessStations(_, _, _)
\* process_data_mec for one pool: every station's transferred-jobs queue is drained
\* with the capacity given into its accomplished-jobs queue; st is
\* [jobs, tq, aq, used], used[b] the budget the drain at b consumed
ProcessStations(bs, cap, st) ==
    IF bs = <<>> THEN st
    ELSE LET b == Head(bs)
             r == Drain(st.tq[b], cap, st.jobs, "comp")
         IN ProcessStations(Tail(bs), cap,
                [jobs |-> r.jobs,
                 tq |-> [st.tq EXCEPT ![b] = r.q],
                 aq |-> [st.aq EXCEPT ![b] = @ \o r.done],
                 used |-> [st.used EXCEPT ![b] = r.used]])

\* the capacities step() hands to process_data_mec: its locals
\* computational_power_for_ues / _sensors, left at the last station's values
ProcCapUe == locals.computational_power_for_ues
ProcCapSensor == locals.computational_power_for_sensors

\* -------------------------------------------------- accounting and reward
\* the jobs of a kind accomplished at the current time (check_packet_delays' filter)
AccomplishedNow(kind) ==
    {i \in 1..Len(jobs) : jobs[i].kind = kind /\ jobs[i].accomplished = time}

\* a delay check that also flags a delay equal to the threshold
DelayedNowInclusive(kind) ==
    {i \in AccomplishedNow(kind) : time - jobs[i].creation >= E2E_DELAY_THRESHOLD}

\* check_packet_delays: of those, the ones with time - creation_time > threshold
DelayedNow(kind) ==
    {i \in AccomplishedNow(kind) : time - jobs[i].creation > E2E_DELAY_THRESHOLD}

\* an AoRI that sums over all jobs of the UE accomplished so far
aori_carried_over ==
    [u \in Users |->
        LET mine == {i \in 1..Len(jobs) : /\ jobs[i].kind = "ue" /\ jobs[i].owner = u
                                          /\ jobs[i].accomplished # None}
        IN IF mine = {} THEN None
           ELSE SumSeq([k \in 1..Cardinality(mine) |->
                           jobs[SetToSeq(mine)[k]].accomplished - jobs[SetToSeq(mine)[k]].creation])]

\* handler.aori_per_user: per UE the summed end-to-end delay of its jobs
\* accomplished at the current time, None when there is none
aori_per_user ==
    [u \in Users |->
        LET mine == {i \in AccomplishedNow("ue") : jobs[i].owner = u}
        IN IF mine = {} THEN None
           ELSE SumSeq([k \in 1..Cardinality(mine) |-> time - jobs[SetToSeq(mine)[k]].creation])]

\* metrics.calculate_total_aori for the per-device values a: the sum of those
\* that are not None
calculate_total_aori(a) ==
    LET ds == SetToSeq({d \in DOMAIN a : a[d] # None})
    IN SumSeq([k \in 1..Len(ds) |-> a[ds[k]]])

\* utility.scale(utility.utility(rate)): bounded and increasing in the rate
ScaledUtility(rate) == Min(Log2Floor(1 + rate), 3)

\* handler.reward(self): a scalar computed from the public per-step state
Reward ==
    1 + Cardinality(AccomplishedNow("ue")) + Cardinality(AccomplishedNow("sensor"))
      - Cardinality(DelayedNow("ue")) - Cardinality(DelayedNow("sensor"))

\* log_queue_sizes' entry: the sizes of the station queues and uplink buffers
QueueSizes ==
    <<time,
      [i \in 1..Len(StationOrder) |-> Len(bsq.transferred_jobs_ue[StationOrder[i]])],
      [i \in 1..Len(StationOrder) |-> Len(bsq.accomplished_jobs_ue[StationOrder[i]])],
      [i \in 1..Len(StationOrder) |-> Len(bsq.transferred_jobs_sensor[StationOrder[i]])],
      [i \in 1..Len(StationOrder) |-> Len(bsq.accomplished_jobs_sensor[StationOrder[i]])],
      [i \in 1..Len(UserOrder) |-> Len(uplink_ue[UserOrder[i]])],
      [i \in 1..Len(SensorOrder) |-> Len(uplink_sensor[SensorOrder[i]])]>>

\* the logs as reset() leaves them
\* logs of which the reward log keeps an entry of the episode before
StaleLogs ==
    [resource_allocation_logs |-> <<>>, queue_size_logs |-> <<>>,
     delayed_packet_logs |-> <<>>, total_delayed_packet_logs |-> <<>>,
     aori_logs |-> <<>>, reward_logs |-> <<<<0, 0>>>>]

EmptyLogs ==
    [resource_allocation_logs |-> <<>>, queue_size_logs |-> <<>>,
     delayed_packet_logs |-> <<>>, total_delayed_packet_logs |-> <<>>,
     aori_logs |-> <<>>, reward_logs |-> <<>>]

NoLocals ==
    [bandwidth_allocation |-> None, computational_allocation |-> None,
     bandwidth_for_ues |-> None, bandwidth_for_sensors |-> None,
     computational_power_for_ues |-> None, computational_power_for_sensors |-> None]
NoQueues == [b \in Stations |-> <<>>]

\* an active list that turns the previous one around when it holds the same UEs
TurnedActive(S) ==
    IF Range(active) = S /\ S # {}
    THEN [i \in 1..Len(active) |-> active[Len(active) + 1 - i]]
    ELSE SetToSeq(S)

\* an active list in descending ue_id order
DescendingActive(S) ==
    LET a == SetToSeq(S) IN [i \in 1..Len(a) |-> a[Len(a) + 1 - i]]

\* the active list: the UEs of S sorted by ue_id
SortedActive(S) == SetToSeq(S)

\* ------------------------------------------------------------ construction
\* __init__: nothing is set up before the first reset()
\* the orders a loop over the set S can take: a set of objects that define no
\* __hash__ is iterated in the order of their addresses in the hash table, which is
\* any order of the identities
IterationOrders(S) == {o \in [1..Cardinality(S) -> S] : Range(o) = S}

\* one iteration order per station for the connection sets c
ConnsOrders(c) ==
    {o \in [Stations -> UNION {IterationOrders(c[b]) : b \in Stations}] :
        \A b \in Stations : o[b] \in IterationOrders(c[b])}

\* movement.move has not been called since reset()
NotMoved == [ue |-> <<>>, sensor |-> <<>>]

\* no scheduling call is in progress
NotPresented == [ue |-> [b \in Stations |-> <<>>], sensor |-> [b \in Stations |-> <<>>]]

Construct(ep_time) ==
    /\ ep_max_time = ep_time
    /\ returned = 0
    /\ pc = "new" /\ actions = <<>> /\ depth = 0 /\ phases = <<>>
    /\ result = [status |-> "none", t0 |-> None, n |-> 0, reward |-> None, ret |-> NoReturn]
    /\ entry = NoEntry
    /\ episodes = 0
    /\ call = NoCall
    /\ presented = NotPresented
    /\ moved = NotMoved
    /\ time = None
    /\ stime = [u \in Users |-> None] /\ extime = [u \in Users |-> None]
    /\ pos = [u \in Users |-> <<None, None>>]
    /\ max_departure = None
    /\ active = <<>>
    /\ connections = [b \in Stations |-> {}]
    /\ connections_sensor = [b \in Stations |-> {}]
    /\ resource_allocations = EmptyMap
    /\ locals = NoLocals
    /\ datarates = EmptyMap /\ datarates_sensor = EmptyMap
    /\ macro = EmptyMap /\ macro_sensor = EmptyMap
    /\ jobs = <<>>
    /\ uplink_ue = [u \in Users |-> <<>>]
    /\ uplink_sensor = [s \in Sensors |-> <<>>]
    /\ bsq = [transferred_jobs_ue |-> NoQueues, transferred_jobs_sensor |-> NoQueues,
              accomplished_jobs_ue |-> NoQueues, accomplished_jobs_sensor |-> NoQueues]
    /\ drains = [transfer_ue |-> EmptyMap, transfer_sensor |-> EmptyMap,
                 process_ue |-> EmptyMap, process_sensor |-> EmptyMap]
    /\ delayed_ue_jobs = 0 /\ delayed_sensor_jobs = 0
    /\ utilities = EmptyMap /\ utilities_sensor = EmptyMap
    /\ rewards = None
    /\ episode_reward = 0
    /\ logs = EmptyLogs

\* the simulation constructed with the configured episode length
Init == Construct(EP_MAX_TIME)

\* ------------------------------------------------------------------ reset
\* reset(): w[u] is the window the arrival model gives u, ip[u] its initial position
Reset(w, ip) ==
    /\ pc \in {"new", "idle"}
    /\ episodes <= MaxEpisodes + 1
    /\ episodes' = episodes + 1
    /\ pc' = "idle" /\ actions' = <<>> /\ depth' = 0 /\ phases' = <<>>
    /\ result' = [status |-> "reset", t0 |-> None, n |-> 0, reward |-> None, ret |-> NoReturn]
    /\ entry' = NoEntry
    /\ time' = 0
    /\ stime' = [u \in Users |-> w[u][1]]
    /\ extime' = [u \in Users |-> w[u][2]]
    /\ pos' = ip
    /\ active' = SortedActive({u \in Users : w[u][1] <= 0})
    /\ connections' = [b \in Stations |-> {}]
    /\ connections_sensor' = [b \in Stations |-> {}]
    /\ datarates' = EmptyMap /\ datarates_sensor' = EmptyMap
    /\ resource_allocations' = EmptyMap
    /\ utilities' = EmptyMap /\ utilities_sensor' = EmptyMap
    /\ jobs' = <<>>
    /\ uplink_ue' = [u \in Users |-> <<>>]
    /\ uplink_sensor' = [s \in Sensors |-> <<>>]
    /\ bsq' = [transferred_jobs_ue |-> NoQueues, transferred_jobs_sensor |-> NoQueues,
               accomplished_jobs_ue |-> NoQueues, accomplished_jobs_sensor |-> NoQueues]
    /\ drains' = [transfer_ue |-> EmptyMap, transfer_sensor |-> EmptyMap,
                  process_ue |-> EmptyMap, process_sensor |-> EmptyMap]
    /\ delayed_ue_jobs' = 0 /\ delayed_sensor_jobs' = 0
    /\ logs' = EmptyLogs
    /\ episode_reward' = 0
    /\ max_departure' = LET m == CHOOSE u \in Users : \A o \in Users : w[u][2] >= w[o][2]
                        IN w[m][2]
    /\ moved' = NotMoved
    /\ UNCHANGED <<call, locals, presented, macro, macro_sensor, rewards>>
    /\ UNCHANGED cfg
    /\ returned' = 0

\* ------------------------------------------------------------------- step
\* an order in which the devices move before the utilities and the reward
MoveBeforeReward ==
    <<"connect", "prune", "generate", "split", "schedule", "transfer", "process",
      "account", "advance", "reward">>

\* the order in which step() runs its phases
PhaseOrder ==
    <<"connect", "prune", "generate", "split", "schedule", "transfer", "process",
      "account", "reward", "advance">>

\* an order in which processing runs before the transfer
PhaseAfterProcessFirst(p) ==
    LET order == <<"connect", "prune", "generate", "split", "schedule", "process",
                   "transfer", "account", "reward", "advance">>
        i == CHOOSE i \in 1..Len(order) : order[i] = p
    IN order[i + 1]

\* the phase step() runs after phase p
PhaseAfter(p) ==
    LET i == CHOOSE i \in 1..Len(PhaseOrder) : PhaseOrder[i] = p
    IN PhaseOrder[i + 1]

\* a phase of step() completes and control passes to the next one
Done(p) == pc' = PhaseAfter(p) /\ phases' = Append(phases, p)

\* a caller invokes step(a) and step() runs `assert not self.time_is_up`: on a
\* terminated episode the call fails there.  A call that raised ValueError left a
\* half-made timestep behind; the caller treats that simulation as failed and
\* resets it.  Calls are explored in the first MaxEpisodes episodes.
StepCall(a) ==
    /\ pc = "idle"
    /\ result.status # "ValueError"
    /\ episodes <= MaxEpisodes
    /\ entry' = Snapshot
    /\ depth' = 0
    /\ IF time_is_up
       THEN /\ pc' = "idle"
            /\ result' = [status |-> "AssertionError", t0 |-> time, n |-> 0, reward |-> None, ret |-> NoReturn]
            /\ actions' = <<>>
            /\ UNCHANGED phases
       ELSE /\ pc' = "connect"
            /\ result' = [status |-> "running", t0 |-> time, n |-> 0, reward |-> None, ret |-> NoReturn]
            /\ actions' = a
            /\ phases' = <<>>
    /\ UNCHANGED <<episodes, call, sim>>
    /\ UNCHANGED <<cfg, returned>>

\* the same assert in a re-entry of step()
StepAssert ==
    /\ pc = "assert"
    /\ IF time_is_up
       THEN /\ pc' = "idle"
            /\ result' = [result EXCEPT !.status = "AssertionError"]
            /\ actions' = <<>>
            /\ depth' = 0
            /\ UNCHANGED phases
       ELSE /\ pc' = "connect"
            /\ phases' = <<>>
            /\ UNCHANGED <<result, actions, depth>>
    /\ UNCHANGED <<entry, episodes, call, sim>>
    /\ UNCHANGED <<cfg, returned>>

\* connect_bs_ue(); connect_bs_sensor()
ConnectPhase ==
    /\ pc = "connect"
    /\ connections' = connect_bs_ue(connections)
    /\ connections_sensor' = connect_bs_sensor(connections_sensor)
    /\ Done("connect")
    /\ UNCHANGED <<actions, depth, result, entry, episodes, call, presented, moved, time, arrivals,
                   pos, active,
                   resource_allocations, locals, rates, queues, drains, delayed, utils,
                   rewards, episode_reward, logs>>
    /\ UNCHANGED <<cfg, returned>>

\* update_connections(); update_connections_sensors()
PrunePhase ==
    /\ pc = "prune"
    /\ connections' = update_connections(connections)
    /\ connections_sensor' = update_connections_sensors(connections_sensor)
    /\ Done("prune")
    /\ UNCHANGED <<actions, depth, result, entry, episodes, call, presented, moved, time, arrivals,
                   pos, active,
                   resource_allocations, locals, rates, queues, drains, delayed, utils,
                   rewards, episode_reward, logs>>
    /\ UNCHANGED <<cfg, returned>>

\* generate_job_ue(ue) for every user, then generate_job_sensor(sensor) for every sensor
GeneratePhase(gu, gs) ==
    /\ pc = "generate"
    /\ LET st1 == AddJobs(UserOrder, "ue", gu, [jobs |-> jobs, up |-> uplink_ue])
           st2 == AddJobs(SensorOrder, "sensor", gs, [jobs |-> st1.jobs, up |-> uplink_sensor])
       IN /\ jobs' = st2.jobs
          /\ uplink_ue' = st1.up
          /\ uplink_sensor' = st2.up
    /\ Done("generate")
    /\ UNCHANGED <<actions, depth, result, entry, episodes, call, presented, moved, time, arrivals,
                   pos, active, conns,
                   resource_allocations, locals, rates, bsq, drains, delayed, utils,
                   rewards, episode_reward, logs>>
    /\ UNCHANGED <<cfg, returned>>

\* handler.action, self.resource_allocations = {}, the apply_action loop over the
\* stations and log_resource_allocations.  apply_action raises ValueError for the
\* first station when a ratio is out of range, which ends the call there.
SplitPhase(r) ==
    /\ pc = "split"
    /\ LET a == HandlerAction(actions, r)
           last == StationOrder[Len(StationOrder)]
       IN IF AllocationsInRange(a[1], a[2])
          THEN /\ resource_allocations' = [b \in Stations |-> apply_action(b, a[1], a[2])]
               /\ locals' = [bandwidth_allocation |-> a[1], computational_allocation |-> a[2]]
                            @@ apply_action(last, a[1], a[2])
               /\ logs' = [logs EXCEPT !.resource_allocation_logs =
                              Append(@, <<time, a[1], RatioDen - a[1], a[2], RatioDen - a[2]>>)]
               /\ Done("split")
               /\ UNCHANGED <<result, actions, depth>>
          ELSE /\ resource_allocations' = EmptyMap
               /\ locals' = NoLocals
               /\ pc' = "idle"
               /\ result' = [result EXCEPT !.status = "ValueError"]
               /\ actions' = <<>>
               /\ depth' = 0
               /\ UNCHANGED <<logs, phases>>
    /\ UNCHANGED <<entry, episodes, call, presented, moved, time, arrivals,
                   pos, active, conns, rates,
                   queues, drains, delayed, utils, rewards, episode_reward>>
    /\ UNCHANGED <<cfg, returned>>

\* the station_allocation / station_allocation_sensor loops and the macro rates
SchedulePhase ==
    /\ pc = "schedule"
    /\ \E ou \in ConnsOrders(connections), os \in ConnsOrders(connections_sensor) :
           presented' = [ue |-> ou, sensor |-> os]
    /\ datarates' = AllDatarates
    /\ datarates_sensor' = AllDataratesSensor
    /\ macro' = macro_datarates(AllDatarates)
    /\ macro_sensor' = macro_datarates(AllDataratesSensor)
    /\ Done("schedule")
    /\ UNCHANGED <<actions, depth, result, entry, episodes, call, moved, time, arrivals,
                   pos, active, conns,
                   resource_allocations, locals, queues, drains, delayed, utils,
                   rewards, episode_reward, logs>>
    /\ UNCHANGED <<cfg, returned>>

\* data_transfer_manager.transfer_data_uplink()
TransferPhase ==
    /\ pc = "transfer"
    /\ \E pu \in {ConnPairs(StationOrder, connections)},
          ps \in {ConnPairs(StationOrder, connections_sensor)} :
       \E su \in {TransferPairs(pu, datarates,
                     [jobs |-> jobs, up |-> uplink_ue, tq |-> bsq.transferred_jobs_ue,
                      used |-> [p \in Range(pu) |-> 0]])} :
       \E ss \in {TransferPairs(ps, datarates_sensor,
                     [jobs |-> su.jobs, up |-> uplink_sensor,
                      tq |-> bsq.transferred_jobs_sensor,
                      used |-> [p \in Range(ps) |-> 0]])} :
          /\ jobs' = ss.jobs
          /\ uplink_ue' = su.up
          /\ uplink_sensor' = ss.up
          /\ bsq' = [bsq EXCEPT !.transferred_jobs_ue = su.tq,
                                !.transferred_jobs_sensor = ss.tq]
          /\ drains' = [drains EXCEPT !.transfer_ue = su.used, !.transfer_sensor = ss.used]
    /\ presented' = NotPresented
    /\ Done("transfer")
    /\ UNCHANGED <<actions, depth, result, entry, episodes, call, moved, time, arrivals,
                   pos, active, conns,
                   resource_allocations, locals, rates, delayed, utils,
                   rewards, episode_reward, logs>>
    /\ UNCHANGED <<cfg, returned>>

\* data_process_manager.process_data_mec(computational_power_for_ues,
\*                                       computational_power_for_sensors)
ProcessPhase ==
    /\ pc = "process"
    /\ \E su \in {ProcessStations(StationOrder, ProcCapUe,
                     [jobs |-> jobs, tq |-> bsq.transferred_jobs_ue,
                      aq |-> bsq.accomplished_jobs_ue, used |-> [b \in Stations |-> 0]])} :
       \E ss \in {ProcessStations(StationOrder, ProcCapSensor,
                     [jobs |-> su.jobs, tq |-> bsq.transferred_jobs_sensor,
                      aq |-> bsq.accomplished_jobs_sensor, used |-> [b \in Stations |-> 0]])} :
          /\ jobs' = ss.jobs
          /\ bsq' = [transferred_jobs_ue |-> su.tq, accomplished_jobs_ue |-> su.aq,
                     transferred_jobs_sensor |-> ss.tq, accomplished_jobs_sensor |-> ss.aq]
          /\ drains' = [drains EXCEPT !.process_ue = su.used, !.process_sensor = ss.used]
    /\ Done("process")
    /\ UNCHANGED <<actions, depth, result, entry, episodes, call, presented, moved, time, arrivals,
                   pos, active, conns,
                   resource_allocations, locals, rates, uplink_ue, uplink_sensor, delayed,
                   utils, rewards, episode_reward, logs>>
    /\ UNCHANGED <<cfg, returned>>

\* log_queue_sizes, check_packet_delays, log_delayed_packets,
\* log_total_delayed_packets, handler.aori_per_user, log_aori_per_user
AccountPhase ==
    /\ pc = "account"
    /\ LET du == Cardinality(DelayedNow("ue"))
           ds == Cardinality(DelayedNow("sensor"))
       IN /\ delayed_ue_jobs' = delayed_ue_jobs + du
          /\ delayed_sensor_jobs' = delayed_sensor_jobs + ds
          /\ logs' = [logs EXCEPT
                 !.queue_size_logs = Append(@, QueueSizes),
                 !.delayed_packet_logs = Append(@, <<time, du, ds>>),
                 !.total_delayed_packet_logs =
                     Append(@, <<time, delayed_ue_jobs + du, delayed_sensor_jobs + ds>>),
                 !.aori_logs = Append(@, <<time, aori_per_user>>)]
    /\ Done("account")
    /\ UNCHANGED <<actions, depth, result, entry, episodes, call, presented, moved, time, arrivals,
                   pos, active, conns,
                   resource_allocations, locals, rates, queues, drains, utils,
                   rewards, episode_reward>>
    /\ UNCHANGED <<cfg, returned>>

\* the utilities of the active UEs and of the sensors, handler.reward,
\* the episode reward and log_rewards
RewardPhase ==
    /\ pc = "reward"
    /\ utilities' = [u \in Range(active) |-> ScaledUtility(MacroRate(macro, u))]
    /\ utilities_sensor' = [s \in Sensors |-> ScaledUtility(MacroRate(macro_sensor, s))]
    /\ rewards' = Reward
    /\ episode_reward' = episode_reward + Reward
    /\ logs' = [logs EXCEPT !.reward_logs = Append(@, <<time, Reward>>)]
    /\ Done("reward")
    /\ UNCHANGED <<actions, depth, result, entry, episodes, call, presented, moved, time, arrivals,
                   pos, active, conns,
                   resource_allocations, locals, rates, queues, drains, delayed>>
    /\ UNCHANGED <<cfg, returned>>

\* a step() without the skip-ahead
NeverReEnters(act, up) == FALSE

\* a step() that re-enters whenever no UE is active, over or not
ReEntersWhenOver(act, up) == act = <<>>

\* `if not self.active and not self.time_is_up`: step() re-enters itself, given the
\* active list and time_is_up as they are after the time increment
ReEnters(act, up) == act = <<>> /\ ~up

\* movement.move(ue) may take a UE from p to q
CanMove(p, q) == q \in Positions /\ Dist2(p, q) <= 1

\* a step() that reports the episode reward in every info
StepReturnAlwaysEpisode(up, total) ==
    [terminated |-> FALSE, truncated |-> up, episode |-> <<[r |-> total]>>]

\* what a step() returns besides the observation and the rewards: terminated = False,
\* truncated = self.time_is_up, and info with the "episode" entry if truncated
StepReturn(up, total) ==
    [terminated |-> FALSE, truncated |-> up,
     episode |-> IF up THEN <<[r |-> total]>> ELSE <<>>]

\* the rest of step(): the active UEs move, leaving UEs are disconnected, the
\* active list is rebuilt, time advances, and step() either re-enters itself with
\* the empty action (no active UE, episode not over) or returns
AdvancePhase(mv) ==
    /\ pc = "advance"
    /\ UNCHANGED cfg
    /\ \A u \in Range(active) : CanMove(pos[u], mv[u])
    /\ \A u \in Users \ Range(active) : mv[u] = pos[u]
    /\ pos' = mv
    /\ moved' = [ue |-> active, sensor |-> <<>>]
    /\ LET leaving == {u \in Range(active) : extime[u] <= time}
       IN connections' = [b \in Stations |-> connections[b] \ leaving]
    /\ active' = SortedActive({u \in Users : extime[u] > time /\ stime[u] <= time})
    /\ time' = time + 1
    /\ UNCHANGED <<episodes, call, presented, arrivals, connections_sensor, resource_allocations, rates,
                   queues, drains, delayed, utils, episode_reward, logs>>
    /\ rewards' = None
    /\ phases' = Append(phases, "advance")
    /\ IF ReEnters(active', time_is_up')
       THEN /\ pc' = "assert"
            /\ actions' = <<>>
            /\ depth' = depth + 1
            /\ result' = [result EXCEPT !.n = @ + 1]
            /\ UNCHANGED returned
            /\ UNCHANGED <<entry, locals>>
       ELSE /\ pc' = "idle"
            /\ result' = [result EXCEPT !.status = "ok", !.n = @ + 1, !.reward = rewards,
                                         !.ret = StepReturn(time_is_up', episode_reward)]
            /\ returned' = returned + rewards
            /\ entry' = NoEntry
            /\ locals' = NoLocals
            /\ actions' = <<>>
            /\ depth' = 0

Next ==
    \/ \E w \in [Users -> Windows], ip \in [Users -> InitialPositions] : Reset(w, ip)
    \/ \E a \in ValidActions \cup InvalidActions : StepCall(a)
    \/ StepAssert
    \/ ConnectPhase
    \/ PrunePhase
    \/ \E gu \in [Users -> JobSizes \cup {NoJob}], gs \in [Sensors -> JobSizes] :
           GeneratePhase(gu, gs)
    \/ \E r \in ValidActions : SplitPhase(r)
    \/ SchedulePhase
    \/ TransferPhase
    \/ ProcessPhase
    \/ AccountPhase
    \/ RewardPhase
    \/ \E mv \in [Users -> Positions] : AdvancePhase(mv)

Spec == Init /\ [][Next]_vars

\* ------------------------------------------------- apply_action, called directly
\* the ratios a direct call of apply_action is given: the in-range grid and two
\* values off each end
AnyRatios == (0 - 2)..(RatioDen + 2)

\* apply_action(bs, bw, comp) is called on the constructed object
ApplyCall(b, bw, comp) ==
    /\ pc = "new"
    /\ call.state # "called"
    /\ call' = [op |-> "apply_action", state |-> "called", b |-> b, bw |-> bw,
                comp |-> comp, raised |-> "none", ret |-> NoReturn]
    /\ UNCHANGED <<ctl, sim>>
    /\ UNCHANGED <<cfg, returned>>

\* the call raises or returns
ApplyReturn ==
    /\ call.op = "apply_action" /\ call.state = "called"
    /\ LET r == apply_action_call(call.b, call.bw, call.comp)
       IN call' = [call EXCEPT !.state = "returned", !.raised = r.raised, !.ret = r.ret]
    /\ UNCHANGED <<ctl, sim>>
    /\ UNCHANGED <<cfg, returned>>

NextApply ==
    \/ \E b \in Stations, bw \in AnyRatios, comp \in AnyRatios : ApplyCall(b, bw, comp)
    \/ ApplyReturn

SpecApply == Init /\ [][NextApply]_vars

\* ------------------------------------------------------------------ metrics
\* metrics.user_closest_distance / sensor_closest_distance: per device the distance
\* to the station `next(iter(sim.stations.values()))`, kept as its square
user_closest_distance == [u \in Users |-> Dist2(BsPos[StationOrder[1]], pos[u])]
sensor_closest_distance == [x \in Sensors |-> Dist2(BsPos[StationOrder[1]], SensorPos[x])]

\* np.mean of the values of a macro-rate Counter m: the sum of the rates, the
\* number of epsilons in it and the number of values; nan for no value
MeanRate(m) ==
    LET ds == SetToSeq(DOMAIN m)
    IN IF ds = <<>> THEN [nan |-> TRUE, rate |-> 0, eps |-> 0, n |-> 0]
       ELSE [nan |-> FALSE, rate |-> SumSeq([k \in 1..Len(ds) |-> m[ds[k]].rate]),
             eps |-> SumSeq([k \in 1..Len(ds) |-> m[ds[k]].eps]), n |-> Len(ds)]

\* the float 0.0 as such a mean
ZeroRate == [nan |-> FALSE, rate |-> 0, eps |-> 0, n |-> 1]

\* metrics.mean_datarate_sensor: `if not sim.macro: return 0.0`, else the mean of
\* sim.macro_sensor's values
mean_datarate_sensor == IF DOMAIN macro = {} THEN ZeroRate ELSE MeanRate(macro_sensor)

\* metrics.mean_utility_sensor: for an empty sim.utilities_sensor it evaluates
\* `sim.utilities_sensor.lower`, an attribute a dict does not have; otherwise the
\* mean of the values, kept as their sum and their number
mean_utility_sensor ==
    IF DOMAIN utilities_sensor = {}
    THEN [raised |-> "AttributeError", ret |-> NoReturn]
    ELSE LET xs == SetToSeq(DOMAIN utilities_sensor)
         IN [raised |-> "none",
             ret |-> [sum |-> SumSeq([k \in 1..Len(xs) |-> utilities_sensor[xs[k]]]),
                      n |-> Len(xs)]]

\* ------------------------------------------------- one queue drained step by step
\* the demands of the jobs queued and the capacities of the drains
DrainSizes == {2, 3, 10}
DrainCaps == {0, 4, 5}

\* a job of communication demand size is appended to the uplink buffer of the
\* first UE before the first drain
DrainEnqueue(size) ==
    /\ pc = "idle" /\ episodes = 1 /\ time = 0
    /\ call.op = "none"
    /\ Len(jobs) < MaxQueued
    /\ LET st == AddJobs(<<UserOrder[1]>>, "ue", [u \in Users |-> <<size, size>>],
                         [jobs |-> jobs, up |-> uplink_ue])
       IN jobs' = st.jobs /\ uplink_ue' = st.up
    /\ UNCHANGED <<ctl, call, presented, moved, time, arrivals, pos, active, conns,
                   resource_allocations, locals, rates, uplink_sensor, bsq, drains,
                   delayed, utils, rewards, episode_reward, logs>>
    /\ UNCHANGED <<cfg, returned>>

\* one step's transfer of that buffer at capacity cap, and the step's clock tick;
\* call keeps the capacities so far and the head job's remaining demand after each
DrainStep(cap) ==
    /\ pc = "idle" /\ episodes = 1
    /\ jobs # <<>>
    /\ time < MaxDrains
    /\ LET u == UserOrder[1]
           r == Drain(uplink_ue[u], cap, jobs, "comm")
           h == IF call.op = "drain" THEN call ELSE [caps |-> <<>>, left |-> <<>>]
       IN /\ jobs' = r.jobs
          /\ uplink_ue' = [uplink_ue EXCEPT ![u] = r.q]
          /\ call' = [op |-> "drain", state |-> "returned", caps |-> Append(h.caps, cap),
                      left |-> Append(h.left, r.jobs[1].rem_comm), used |-> r.used]
    /\ time' = time + 1
    /\ UNCHANGED <<ctl, presented, moved, arrivals, pos, active, conns,
                   resource_allocations, locals, rates, uplink_sensor, bsq, drains,
                   delayed, utils, rewards, episode_reward, logs>>
    /\ UNCHANGED <<cfg, returned>>

NextDrain ==
    \/ \E w \in [Users -> Windows], ip \in [Users -> InitialPositions] : Reset(w, ip)
    \/ \E size \in DrainSizes : DrainEnqueue(size)
    \/ \E cap \in DrainCaps : DrainStep(cap)

SpecDrain == Init /\ [][NextDrain]_vars

\* ================================================================== claims
\* the phases of a timestep that come after its connectivity update / its scheduling
AfterConnectivity ==
    {"generate", "split", "schedule", "transfer", "process", "account", "reward", "advance"}
AfterScheduling == {"transfer", "process", "account", "reward", "advance"}

\* the stations whose connection set holds UE u / sensor s
StationsOf(u) == {b \in Stations : u \in connections[b]}
StationsOfSensor(s) == {b \in Stations : s \in connections_sensor[b]}

\* the episode limit, written out
Limit == IF ep_max_time <= max_departure THEN ep_max_time ELSE max_departure

\* C1: within every executed timestep the phases run in the order connectivity
\* update (assignment, then pruning), job generation, resource split, scheduling,
\* transfer, processing, accounting, each after the one before has finished: the
\* completed phases are always an initial part of that order and the next phase is
\* the one that follows; the rates scheduling computed are keyed by exactly the
\* connections this timestep's connectivity update left (for the first timestep of a
\* call: the update of the connections the call found); and no job is accomplished
\* without having been transferred, at the same time or earlier.
C1_PhaseOrder ==
    /\ pc \in Range(PhaseOrder) =>
          /\ Len(phases) < Len(PhaseOrder)
          /\ phases = SubSeq(PhaseOrder, 1, Len(phases))
          /\ pc = PhaseOrder[Len(phases) + 1]
    /\ result.status = "ok" => phases = PhaseOrder
    /\ pc \in AfterScheduling =>
          /\ DOMAIN datarates = {p \in Stations \X Users : p[2] \in connections[p[1]]}
          /\ DOMAIN datarates_sensor =
                 {p \in Stations \X Sensors : p[2] \in connections_sensor[p[1]]}
          /\ depth = 0 =>
                connections = [b \in Stations |->
                    {u \in entry.connections[b] \cup {v \in Users : ClosestBs(pos[v]) = b} :
                        Snr(b, pos[u]) > UeSnrTr[u]}]
    /\ \A i \in 1..Len(jobs) :
          jobs[i].accomplished # None =>
              /\ jobs[i].transferred # None
              /\ jobs[i].creation <= jobs[i].transferred
              /\ jobs[i].transferred <= jobs[i].accomplished

\* a job generated, transferred and processed within one timestep, seen by its accounting
C1_Witness ==
    /\ pc = "reward"
    /\ \E i \in 1..Len(jobs) :
          jobs[i].creation = time /\ jobs[i].transferred = time /\ jobs[i].accomplished = time

\* C2: a step() called on a terminated episode (time >= min(EP_MAX_TIME,
\* max_departure)) fails its precondition and changes nothing of the simulation
\* state; this holds in every terminated state, so step() stays rejected until reset().
C2_RejectedStepChangesNothing ==
    [][(pc = "idle" /\ time >= Limit /\ episodes' = episodes) =>
          (pc' = "idle" /\ result'.status = "AssertionError" /\ Snapshot' = Snapshot)]_vars

\* a call rejected after two timesteps that left jobs and log entries behind
C2_Witness ==
    /\ result.status = "AssertionError"
    /\ pc = "idle" /\ time >= Limit /\ entry = Snapshot
    /\ Len(jobs) > 0 /\ Len(logs.reward_logs) = time

\* C3 as stated: every successful step() leaves time one above what it found
C3_OneTimestepPerCall == result.status = "ok" => time = result.t0 + 1

\* some UE is active after the timestep that ends at time t, or the episode is over at t
StopsAt(t) ==
    \/ \E u \in Users : stime[u] <= t - 1 /\ t - 1 < extime[u]
    \/ t >= Limit

\* C3, amended: every executed timestep advances time by one and a successful
\* step() executes one timestep plus one for each re-entry, so it returns at the
\* first time after the call at which a UE is active or the episode is over: time
\* advances by at least one, and by exactly one when that holds after the first timestep.
C3_TimeAdvance ==
    result.status = "ok" =>
        /\ result.n >= 1
        /\ time = result.t0 + result.n
        /\ StopsAt(time)
        /\ \A t \in (result.t0 + 1)..(time - 1) : ~StopsAt(t)

\* a call that skipped ahead: it executed two timesteps
C3_Witness == result.status = "ok" /\ result.n = 2 /\ time = result.t0 + 2

\* C4 as stated: every station's UEs are scheduled from the pool b.bandwidth x bw_ratio
\* and its sensors from b.bandwidth x (1 - bw_ratio)
C4_OwnPools ==
    pc \in AfterScheduling =>
        \A b \in Stations :
            /\ \A u \in connections[b] :
                  datarates[<<b, u>>] =
                      Share(DataRate(Snr(b, pos[u]), BsBw[b] * locals.bandwidth_allocation),
                            Cardinality(connections[b]))
            /\ \A s \in connections_sensor[b] :
                  datarates_sensor[<<b, s>>] =
                      Share(DataRate(Snr(b, SensorPos[s]),
                                     BsBw[b] * (RatioDen - locals.bandwidth_allocation)),
                            Cardinality(connections_sensor[b]))

\* C5 as stated: the processing phase drains every station's UE transfer queue with
\* the capacity b.compute x comp_ratio and its sensor transfer queue with
\* b.compute x (1 - comp_ratio)
C5_OwnCompute ==
    [][pc = "process" =>
          \A b \in Stations :
              /\ drains'.process_ue[b] =
                     Drain(bsq.transferred_jobs_ue[b],
                           BsComp[b] * locals.computational_allocation, jobs, "comp").used
              /\ drains'.process_sensor[b] =
                     Drain(bsq.transferred_jobs_sensor[b],
                           BsComp[b] * (RatioDen - locals.computational_allocation),
                           jobs, "comp").used]_vars

\* C6 as stated: after the connectivity update every UE and every sensor is in at
\* most one station's connection set
C6_SingleStation ==
    pc \in AfterConnectivity =>
        /\ \A u \in Users : Cardinality(StationsOf(u)) <= 1
        /\ \A s \in Sensors : Cardinality(StationsOfSensor(s)) <= 1

\* C7: after the connectivity update every connected (station, device) pair has an
\* SNR strictly above the device's threshold
C7_ConnectedAboveThreshold ==
    pc \in AfterConnectivity =>
        \A b \in Stations :
            /\ \A u \in connections[b] : Snr(b, pos[u]) > UeSnrTr[u]
            /\ \A s \in connections_sensor[b] : Snr(b, SensorPos[s]) > SensorSnrTr[s]

\* the scheduler is about to run with one UE connected and another, whose SNR to its
\* closest station equals its threshold, in no connection set
C7_Witness ==
    /\ pc = "schedule"
    /\ \E u \in Users :
          /\ Snr(ClosestBs(pos[u]), pos[u]) = UeSnrTr[u]
          /\ StationsOf(u) = {}
    /\ \E u \in Users : StationsOf(u) # {}

\* C8: after scheduling, a device in no station's connection set has no data-rate
\* entry and no macro entry (aggregated rate 0): no rate of an earlier timestep
\* is carried over
C8_NoStaleRate ==
    pc \in AfterScheduling =>
        /\ \A u \in Users :
              StationsOf(u) = {} =>
                  /\ \A b \in Stations : <<b, u>> \notin DOMAIN datarates
                  /\ u \notin DOMAIN macro
                  /\ MacroRate(macro, u) = 0
        /\ \A s \in Sensors :
              StationsOfSensor(s) = {} =>
                  /\ \A b \in Stations : <<b, s>> \notin DOMAIN datarates_sensor
                  /\ s \notin DOMAIN macro_sensor
                  /\ MacroRate(macro_sensor, s) = 0

\* a UE that had a positive rate when the call began and is now in no connection set
C8_Witness ==
    /\ pc = "transfer"
    /\ \E u \in Users, b \in Stations :
          /\ <<b, u>> \in DOMAIN entry.datarates
          /\ entry.datarates[<<b, u>>] > 0
          /\ StationsOf(u) = {}

\* UE u was connected to station old when the call began, its SNR to old is now at
\* or below its threshold, and station new is now its closest, above the threshold
Migrates(u, old, new) ==
    /\ old # new
    /\ u \in entry.connections[old]
    /\ Snr(old, pos[u]) <= UeSnrTr[u]
    /\ ClosestBs(pos[u]) = new
    /\ Snr(new, pos[u]) > UeSnrTr[u]

\* C9: a device whose SNR to the station it was connected to fell to or below its
\* threshold, while another station is now its closest and above the threshold, is
\* after the connectivity update connected to the new station and not to the old one
C9_Migration ==
    pc \in AfterConnectivity =>
        \A u \in Users, old \in Stations, new \in Stations :
            Migrates(u, old, new) => u \in connections[new] /\ u \notin connections[old]

\* a UE that migrated in this timestep
C9_Witness ==
    /\ pc = "generate"
    /\ \E u \in Users, old \in Stations, new \in Stations :
          Migrates(u, old, new) /\ StationsOf(u) = {new}

\* C10 as stated: a step() aborted for out-of-range ratios leaves connection sets,
\* uplink buffers, job records, resource allocations, logs and time as the call found them
C10_AbortChangesNothing ==
    result.status = "ValueError" =>
        /\ time = entry.time
        /\ connections = entry.connections
        /\ connections_sensor = entry.connections_sensor
        /\ uplink_ue = entry.uplink_ue
        /\ uplink_sensor = entry.uplink_sensor
        /\ jobs = entry.jobs
        /\ resource_allocations = entry.resource_allocations
        /\ logs = entry.logs

\* a direct call of apply_action has returned or raised
Applied == call.op = "apply_action" /\ call.state = "returned"

\* C11: apply_action with bw_ratio or comp_ratio outside [0,1] raises (ValueError,
\* the code's invalid-action error) and returns no allocation, so an out-of-range
\* ratio is never clamped; with both ratios in [0,1], the boundary values 0 and 1
\* included, it raises nothing and returns an allocation.
C11_OutOfRangeRaises ==
    Applied =>
        LET outside == \/ call.bw < 0 \/ call.bw > RatioDen
                       \/ call.comp < 0 \/ call.comp > RatioDen
        IN /\ outside => call.raised = "ValueError" /\ call.ret = NoReturn
           /\ ~outside => call.raised = "none" /\ call.ret # NoReturn

\* a call with the bandwidth ratio just below 0 and the compute ratio at 1 has raised
C11_Witness ==
    /\ Applied
    /\ call.bw = 0 - 1 /\ call.comp = RatioDen
    /\ call.raised = "ValueError"

\* C12: for ratios in [0,1] apply_action returns ue_bw = bandwidth x bw_ratio,
\* sensor_bw = bandwidth x (1 - bw_ratio), ue_comp = compute x comp_ratio and
\* sensor_comp = compute x (1 - comp_ratio); the four values are non-negative, the
\* two bandwidth pools add up to the station's bandwidth and the two compute pools
\* to its compute capacity (amounts are in units of 1/RatioDen).
C12_SplitValues ==
    (Applied /\ call.raised = "none") =>
        LET b == call.b
            r == call.ret
        IN /\ r.bandwidth_for_ues * RatioDen = (BsBw[b] * RatioDen) * call.bw
           /\ r.bandwidth_for_sensors * RatioDen = (BsBw[b] * RatioDen) * (RatioDen - call.bw)
           /\ r.computational_power_for_ues * RatioDen = (BsComp[b] * RatioDen) * call.comp
           /\ r.computational_power_for_sensors * RatioDen =
                  (BsComp[b] * RatioDen) * (RatioDen - call.comp)
           /\ r.bandwidth_for_ues >= 0 /\ r.bandwidth_for_sensors >= 0
           /\ r.computational_power_for_ues >= 0 /\ r.computational_power_for_sensors >= 0
           /\ r.bandwidth_for_ues + r.bandwidth_for_sensors = BsBw[b] * RatioDen
           /\ r.computational_power_for_ues + r.computational_power_for_sensors =
                  BsComp[b] * RatioDen

\* bw_ratio = 1 and comp_ratio = 0: the UE pool has the whole bandwidth, the sensor
\* pool none, and the sensors have the whole compute capacity
C12_Witness ==
    /\ Applied /\ call.raised = "none"
    /\ call.bw = RatioDen /\ call.comp = 0
    /\ call.ret.bandwidth_for_ues = BsBw[call.b] * RatioDen
    /\ call.ret.bandwidth_for_sensors = 0
    /\ call.ret.computational_power_for_ues = 0

\* the bandwidth a data rate stands for at a given SNR (the inverse of channel.data_rate)
BandwidthOf(rate, snr) == rate \div Log2Floor(1 + snr)

\* C13 as stated: at every station the per-device allocations of a pool with at
\* least one connected device add up to the station's pool capacity (its
\* bandwidth_for_ues / bandwidth_for_sensors), and a station with no connected device
\* of a kind has no allocation of that kind
C13_PoolConserved ==
    pc \in AfterScheduling =>
        \A b \in Stations :
            LET ues == SetToSeq(connections[b])
                sns == SetToSeq(connections_sensor[b])
            IN /\ connections[b] = {} => \A u \in Users : <<b, u>> \notin DOMAIN datarates
               /\ connections[b] # {} =>
                     SumSeq([i \in 1..Len(ues) |->
                                BandwidthOf(datarates[<<b, ues[i]>>], Snr(b, pos[ues[i]]))])
                         = resource_allocations[b].bandwidth_for_ues
               /\ connections_sensor[b] = {} =>
                     \A s \in Sensors : <<b, s>> \notin DOMAIN datarates_sensor
               /\ connections_sensor[b] # {} =>
                     SumSeq([i \in 1..Len(sns) |->
                                BandwidthOf(datarates_sensor[<<b, sns[i]>>],
                                            Snr(b, SensorPos[sns[i]]))])
                         = resource_allocations[b].bandwidth_for_sensors

\* C14 as stated: in every scheduling call the connected devices are presented to
\* the scheduler in ascending identity order (so the (station, device) -> rate
\* mapping does not depend on how the connection set was built)
C14_AscendingOrder ==
    pc = "transfer" =>
        \A b \in Stations :
            /\ presented.ue[b] = SetToSeq(connections[b])
            /\ presented.sensor[b] = SetToSeq(connections_sensor[b])

\* the queues drained for a demand: the device uplink buffers for communication,
\* the stations' transferred-jobs queues for computation
QueuesOf(what, uu, us, bq) ==
    IF what = "comm"
    THEN {uu[u] : u \in Users} \cup {us[x] : x \in Sensors}
    ELSE {bq.transferred_jobs_ue[b] : b \in Stations}
             \cup {bq.transferred_jobs_sensor[b] : b \in Stations}

\* the stamp a drain of a demand sets
StampOf(j, what) == IF what = "comm" THEN j.transferred ELSE j.accomplished
TotalOf(j, what) == IF what = "comm" THEN j.total_comm ELSE j.total_comp

\* in queue q of job table jt every job is unfinished and unstamped, and only the
\* head can have been served
HeadOnly(q, jt, what) ==
    \A i \in 1..Len(q) :
        /\ StampOf(jt[q[i]], what) = None
        /\ Remaining(jt[q[i]], what) > 0
        /\ i > 1 => Remaining(jt[q[i]], what) = TotalOf(jt[q[i]], what)

\* queue q became q2: a prefix of q was removed, every job of it finished and
\* stamped, the rest kept its order and new jobs were added behind it only
FifoStep(q, q2, jt2, what) ==
    \E k \in 0..Len(q) :
        /\ \A i \in 1..k : /\ Remaining(jt2[q[i]], what) = 0
                           /\ StampOf(jt2[q[i]], what) # None
        /\ Len(q2) >= Len(q) - k
        /\ \A i \in 1..(Len(q) - k) : q2[i] = q[k + i]
        /\ \A i \in (Len(q) - k + 1)..Len(q2) : q2[i] \notin Range(q)

\* C15: in every uplink buffer and every station transfer queue jobs complete in
\* insertion order: a step removes jobs from the head only and only finished ones,
\* never reorders the queue, and a job behind an unfinished head is neither served
\* nor stamped
C15_Fifo ==
    [][episodes' = episodes =>
        /\ \A u \in Users : FifoStep(uplink_ue[u], uplink_ue'[u], jobs', "comm")
        /\ \A x \in Sensors : FifoStep(uplink_sensor[x], uplink_sensor'[x], jobs', "comm")
        /\ \A b \in Stations :
              /\ FifoStep(bsq.transferred_jobs_ue[b], bsq'.transferred_jobs_ue[b],
                          jobs', "comp")
              /\ FifoStep(bsq.transferred_jobs_sensor[b], bsq'.transferred_jobs_sensor[b],
                          jobs', "comp")
        /\ \A what \in {"comm", "comp"} :
              \A q \in QueuesOf(what, uplink_ue', uplink_sensor', bsq') :
                  HeadOnly(q, jobs', what)]_vars

\* a partially served head job with an untouched job waiting behind it
C15_Witness ==
    \E u \in Users :
        /\ Len(uplink_ue[u]) >= 2
        /\ jobs[uplink_ue[u][1]].rem_comm < jobs[uplink_ue[u][1]].total_comm
        /\ jobs[uplink_ue[u][2]].rem_comm = jobs[uplink_ue[u][2]].total_comm
        /\ pc = "process"

\* the demand taken off the jobs ids between job tables jt and jt2
DemandServed(ids, jt, jt2, what) ==
    LET q == SetToSeq(ids)
    IN SumSeq([k \in 1..Len(q) |-> Remaining(jt[q[k]], what) - Remaining(jt2[q[k]], what)])

\* the budget the drains of the connections of device d consumed, used[<<b, d>>]
ConsumedFor(d, c, used) ==
    LET bs == SetToSeq({b \in Stations : d \in c[b]})
    IN SumSeq([k \in 1..Len(bs) |-> used[<<bs[k], d>>]])

JobsOf(kind, d) == {i \in 1..Len(jobs) : jobs[i].kind = kind /\ jobs[i].owner = d}

\* C16: for every job and both demands the remaining demand never increases and
\* stays within 0..total; the demand a drain takes off the jobs of a queue is exactly
\* the budget the drain consumed (nothing lost, nothing counted twice), which never
\* exceeds the budget the drain was given; no other step touches a demand
C16_DemandAccounting ==
    [][episodes' = episodes =>
        /\ Len(jobs') >= Len(jobs)
        /\ \A i \in 1..Len(jobs) : \A what \in {"comm", "comp"} :
              /\ Remaining(jobs'[i], what) <= Remaining(jobs[i], what)
              /\ TotalOf(jobs'[i], what) = TotalOf(jobs[i], what)
        /\ \A i \in 1..Len(jobs') : \A what \in {"comm", "comp"} :
              /\ Remaining(jobs'[i], what) >= 0
              /\ Remaining(jobs'[i], what) <= TotalOf(jobs'[i], what)
        /\ pc = "transfer" =>
              /\ \A u \in Users :
                    DemandServed(JobsOf("ue", u), jobs, jobs', "comm")
                        = ConsumedFor(u, connections, drains'.transfer_ue)
              /\ \A x \in Sensors :
                    DemandServed(JobsOf("sensor", x), jobs, jobs', "comm")
                        = ConsumedFor(x, connections_sensor, drains'.transfer_sensor)
              /\ \A p \in DOMAIN drains'.transfer_ue :
                    drains'.transfer_ue[p] >= 0 /\ drains'.transfer_ue[p] <= datarates[p]
              /\ \A p \in DOMAIN drains'.transfer_sensor :
                    /\ drains'.transfer_sensor[p] >= 0
                    /\ drains'.transfer_sensor[p] <= datarates_sensor[p]
              /\ DemandServed(1..Len(jobs), jobs, jobs', "comp") = 0
        /\ pc = "process" =>
              /\ \A b \in Stations :
                    /\ DemandServed(Range(bsq.transferred_jobs_ue[b]), jobs, jobs', "comp")
                           = drains'.process_ue[b]
                    /\ drains'.process_ue[b] >= 0 /\ drains'.process_ue[b] <= ProcCapUe
                    /\ DemandServed(Range(bsq.transferred_jobs_sensor[b]), jobs, jobs', "comp")
                           = drains'.process_sensor[b]
                    /\ drains'.process_sensor[b] >= 0
                    /\ drains'.process_sensor[b] <= ProcCapSensor
              /\ DemandServed(1..Len(jobs), jobs, jobs', "comm") = 0
        /\ pc \notin {"transfer", "process"} =>
              \A what \in {"comm", "comp"} : DemandServed(1..Len(jobs), jobs, jobs', what) = 0
      ]_vars

\* a drain that finished a job served in an earlier step and spent the rest of its
\* budget on the next job of the queue without finishing it
C16_Witness ==
    /\ pc = "process"
    /\ \E p \in DOMAIN drains.transfer_ue :
          /\ drains.transfer_ue[p] > 0
          /\ drains.transfer_ue[p] = datarates[p]
          /\ \E i, k \in JobsOf("ue", p[2]) :
                /\ jobs[i].creation < time /\ jobs[i].transferred = time
                /\ jobs[k].creation = time
                /\ jobs[k].rem_comm > 0 /\ jobs[k].rem_comm < jobs[k].total_comm
                /\ drains.transfer_ue[p] < jobs[i].total_comm
                /\ drains.transfer_ue[p] > jobs[k].total_comm - jobs[k].rem_comm

\* C17: for every job, transferred and accomplished are each set once and never
\* changed afterwards; transferred is set, to the time of the step, in the transfer
\* that takes the remaining communication demand to zero; accomplished is set, to
\* the time of the step, only on a job that is already transferred; and
\* accomplished >= transferred >= creation
C17_Timestamps ==
    [][episodes' = episodes =>
        \A i \in 1..Len(jobs') :
            LET j2 == jobs'[i]
            IN /\ (j2.transferred # None) <=> (j2.rem_comm = 0)
               /\ j2.transferred # None => j2.transferred >= j2.creation
               /\ j2.accomplished # None =>
                     j2.transferred # None /\ j2.accomplished >= j2.transferred
               /\ i <= Len(jobs) =>
                     /\ j2.creation = jobs[i].creation
                     /\ jobs[i].transferred # None => j2.transferred = jobs[i].transferred
                     /\ jobs[i].accomplished # None => j2.accomplished = jobs[i].accomplished
                     /\ (jobs[i].transferred = None /\ j2.transferred # None) =>
                           pc = "transfer" /\ j2.transferred = time
                     /\ (jobs[i].accomplished = None /\ j2.accomplished # None) =>
                           pc = "process" /\ j2.accomplished = time
               /\ i > Len(jobs) => j2.transferred = None /\ j2.accomplished = None
      ]_vars

\* a job transferred in a later step than it was created in and accomplished, next
\* to a job accomplished in a later step than it was transferred in
C17_Witness ==
    /\ \E i \in 1..Len(jobs) :
          jobs[i].transferred > jobs[i].creation /\ jobs[i].accomplished # None
    /\ \E k \in 1..Len(jobs) :
          jobs[k].transferred # None /\ jobs[k].accomplished > jobs[k].transferred

\* the capacity of the first k drains, and the demand of the first i jobs queued
CapacityUpTo(k) == SumSeq(SubSeq(call.caps, 1, k))
DemandUpTo(i) == SumSeq([m \in 1..i |-> jobs[m].total_comm])

\* C18: a queue whose jobs are all there before the first drain, drained step by
\* step with capacities c1, c2, ...: job i is finished in the first step k with
\* c1 + ... + ck >= the demand of the jobs up to i and stamped with that step's time,
\* and before that its remaining demand is what the capacity so far leaves of it, so
\* the budget a step has left after finishing a job goes to the next job at once
C18_DrainSchedule ==
    (call.op = "drain" /\ episodes = 1) =>
        LET n == Len(call.caps)
        IN \A i \in 1..Len(jobs) :
              /\ jobs[i].rem_comm
                     = Min(jobs[i].total_comm, Max(0, DemandUpTo(i) - CapacityUpTo(n)))
              /\ CapacityUpTo(n) < DemandUpTo(i) => jobs[i].transferred = None
              /\ CapacityUpTo(n) >= DemandUpTo(i) =>
                    \E k \in 1..n :
                        /\ CapacityUpTo(k) >= DemandUpTo(i)
                        /\ \A m \in 0..(k - 1) : CapacityUpTo(m) < DemandUpTo(i)
                        /\ jobs[i].transferred = jobs[i].creation + (k - 1)

\* demand 10 drained with capacities 4, 4, 5: remaining 6, 2, 0, transferred two
\* steps after its creation, and the 3 left over taken off the next job
C18_Witness ==
    /\ call.op = "drain" /\ episodes = 1
    /\ call.caps = <<4, 4, 5>>
    /\ jobs[1].total_comm = 10
    /\ call.left = <<6, 2, 0>>
    /\ jobs[1].transferred = jobs[1].creation + 2
    /\ Len(jobs) = 2
    /\ jobs[2].total_comm = 10 /\ jobs[2].rem_comm = 7

\* the jobs of a kind in job table jt that are accomplished with a delay strictly
\* above the threshold: those of earlier steps, and those of the step at time t
\* once it has checked its delays (checked)
LateJobs(kind, jt, t, checked) ==
    {i \in 1..Len(jt) :
        /\ jt[i].kind = kind
        /\ jt[i].accomplished # None
        /\ jt[i].accomplished - jt[i].creation > E2E_DELAY_THRESHOLD
        /\ jt[i].accomplished < t \/ checked}

\* C19: since the last reset each delayed counter is the number of accomplished
\* jobs of its kind whose delay is strictly above the threshold; the counter moves
\* only in the delay check of a step, by the number of such jobs accomplished in
\* that step, and never decreases
C19_DelayedCounters ==
    [][episodes' = episodes =>
        /\ delayed_ue_jobs'
               = Cardinality(LateJobs("ue", jobs', time', pc' \in {"reward", "advance"}))
        /\ delayed_sensor_jobs'
               = Cardinality(LateJobs("sensor", jobs', time', pc' \in {"reward", "advance"}))
        /\ delayed_ue_jobs' >= delayed_ue_jobs
        /\ delayed_sensor_jobs' >= delayed_sensor_jobs
        /\ pc = "account" =>
              /\ delayed_ue_jobs' - delayed_ue_jobs
                     = Cardinality({i \in LateJobs("ue", jobs, time, TRUE) :
                                       jobs[i].accomplished = time})
              /\ delayed_sensor_jobs' - delayed_sensor_jobs
                     = Cardinality({i \in LateJobs("sensor", jobs, time, TRUE) :
                                       jobs[i].accomplished = time})
        /\ pc # "account" =>
              delayed_ue_jobs' = delayed_ue_jobs /\ delayed_sensor_jobs' = delayed_sensor_jobs
      ]_vars

\* one UE job accomplished late and counted, another accomplished with a delay
\* equal to the threshold and not counted
C19_Witness ==
    /\ pc = "reward"
    /\ delayed_ue_jobs = 1
    /\ \E i, k \in 1..Len(jobs) :
          /\ jobs[i].kind = "ue" /\ jobs[k].kind = "ue"
          /\ jobs[i].accomplished = time
          /\ jobs[i].accomplished - jobs[i].creation > E2E_DELAY_THRESHOLD
          /\ jobs[k].accomplished # None
          /\ jobs[k].accomplished - jobs[k].creation = E2E_DELAY_THRESHOLD

SensorCreations(jt, x) ==
    LET ids == SetToSeq({i \in 1..Len(jt) : jt[i].kind = "sensor" /\ jt[i].owner = x})
    IN [k \in 1..Len(ids) |-> jt[ids[k]].creation]

\* the number of timesteps that have generated their jobs since reset(), given the
\* time and the phases the timestep in progress has completed
Generated(t, ph) ==
    IF "generate" \in Range(ph) /\ "advance" \notin Range(ph) THEN t + 1 ELSE t

C23_MoveEveryDevice ==
    [][pc = "advance" =>
          /\ Len(moved'.ue) = Cardinality(Users) /\ Range(moved'.ue) = Users
          /\ Len(moved'.sensor) = Cardinality(Sensors) /\ Range(moved'.sensor) = Sensors
      ]_vars

\* C23, amended: every timestep calls movement.move exactly once for each UE of its
\* active list and for no other device (no inactive UE, no sensor), and only
\* after the timestep's transfer, processing, delay accounting and utility/reward
\* evaluation: no position changes before that
C23_MoveActiveAfterPipeline ==
    [][episodes' = episodes =>
        /\ pc = "advance" =>
              /\ moved'.ue = active /\ moved'.sensor = <<>>
              /\ {"transfer", "process", "account", "reward"} \subseteq Range(phases)
              /\ \A u \in Range(active) : CanMove(pos[u], pos'[u])
              /\ \A u \in Users \ Range(active) : pos'[u] = pos[u]
        /\ pc # "advance" => pos' = pos /\ moved' = moved
      ]_vars

\* a timestep in which the one active UE has moved and the UE that has not arrived
\* has stayed where reset() put it
C23_Witness ==
    /\ pc = "idle" /\ result.status = "ok" /\ time = 1
    /\ moved.ue = <<1>>
    /\ pos[1] \notin InitialPositions
    /\ stime[2] > 0
    /\ pos[2] \in InitialPositions

\* the UE jobs accomplished exactly at time t, of UE u / of all UEs
DoneAt(t, u) ==
    {i \in 1..Len(jobs) : /\ jobs[i].kind = "ue" /\ jobs[i].owner = u
                          /\ jobs[i].accomplished = t}
DelaySum(ids) ==
    LET q == SetToSeq(ids)
    IN SumSeq([k \in 1..Len(q) |-> jobs[q[k]].accomplished - jobs[q[k]].creation])

C25_MacroRate ==
    pc \in AfterScheduling =>
        /\ \A u \in Users :
              LET bs == SetToSeq(StationsOf(u))
              IN IF bs = <<>> THEN u \notin DOMAIN macro /\ MacroRate(macro, u) = 0
                 ELSE /\ u \in DOMAIN macro
                      /\ macro[u].rate = SumSeq([k \in 1..Len(bs) |-> datarates[<<bs[k], u>>]])
                      /\ macro[u].eps = Len(bs)
        /\ \A x \in Sensors :
              LET bs == SetToSeq(StationsOfSensor(x))
              IN IF bs = <<>>
                 THEN x \notin DOMAIN macro_sensor /\ MacroRate(macro_sensor, x) = 0
                 ELSE /\ x \in DOMAIN macro_sensor
                      /\ macro_sensor[x].rate
                            = SumSeq([k \in 1..Len(bs) |-> datarates_sensor[<<bs[k], x>>]])
                      /\ macro_sensor[x].eps = Len(bs)

\* a UE connected to both stations with a data rate on each, next to a UE with no
\* connection and no macro entry
C25_Witness ==
    /\ pc = "transfer"
    /\ \E u, v \in Users :
          /\ StationsOf(u) = Stations
          /\ \A b \in Stations : datarates[<<b, u>>] > 0
          /\ macro[u].eps = 2
          /\ StationsOf(v) = {} /\ v \notin DOMAIN macro

\* the square of the distance from p to the closest station
ClosestDist2(p) == Dist2(BsPos[ClosestBs(p)], p)

\* C26 as stated: where step() evaluates its metrics, user_closest_distance and
\* sensor_closest_distance give every device the distance to the closest of the
\* stations
C26_ClosestDistance ==
    pc = "advance" =>
        /\ \A u \in Users : user_closest_distance[u] = ClosestDist2(pos[u])
        /\ \A x \in Sensors : sensor_closest_distance[x] = ClosestDist2(SensorPos[x])

\* ------------------------------------------------- the metrics over any data rates
\* the data-rate maps a scheduling can leave for the devices D: any set of
\* (station, device) connections, each with a rate
RateMaps(D) == UNION {[S -> {0, 2}] : S \in SUBSET (Stations \X D)}

\* a scheduling that left the rates du and ds and the macro rates aggregated from
\* them, followed by a call of mean_datarate_sensor(sim)
MetricCall(du, ds) ==
    /\ pc = "idle" /\ episodes = 1 /\ time = 0
    /\ call.op = "none"
    /\ datarates' = du /\ datarates_sensor' = ds
    /\ macro' = macro_datarates(du)
    /\ macro_sensor' = macro_datarates(ds)
    /\ call' = [op |-> "mean_datarate_sensor", state |-> "called"]
    /\ UNCHANGED <<ctl, presented, moved, time, arrivals, pos, active, conns,
                   resource_allocations, locals, queues, drains, delayed, utils,
                   rewards, episode_reward, logs>>
    /\ UNCHANGED <<cfg, returned>>

\* the call returns
MetricReturn ==
    /\ call.op = "mean_datarate_sensor" /\ call.state = "called"
    /\ call' = [op |-> "mean_datarate_sensor", state |-> "returned",
                ret |-> mean_datarate_sensor]
    /\ UNCHANGED <<ctl, sim>>
    /\ UNCHANGED <<cfg, returned>>

\* the sensor utilities a timestep can leave: none (no sensor, or no timestep yet),
\* or a scaled utility for every sensor
UtilityMaps == {EmptyMap} \cup [Sensors -> {ScaledUtility(r) : r \in 0..MaxDemand}]

\* a call of mean_utility_sensor(sim) on a simulation with the sensor utilities us
UtilityCall(us) ==
    /\ pc = "idle" /\ episodes = 1 /\ time = 0
    /\ call.op = "none"
    /\ utilities_sensor' = us
    /\ call' = [op |-> "mean_utility_sensor", state |-> "called"]
    /\ UNCHANGED <<ctl, presented, moved, time, arrivals, pos, active, conns,
                   resource_allocations, locals, rates, queues, drains, delayed,
                   utilities, rewards, episode_reward, logs>>
    /\ UNCHANGED <<cfg, returned>>

\* the call returns or raises
UtilityReturn ==
    /\ call.op = "mean_utility_sensor" /\ call.state = "called"
    /\ call' = [op |-> "mean_utility_sensor", state |-> "returned",
                raised |-> mean_utility_sensor.raised, ret |-> mean_utility_sensor.ret]
    /\ UNCHANGED <<ctl, sim>>
    /\ UNCHANGED <<cfg, returned>>

NextMetric ==
    \/ \E w \in [Users -> Windows], ip \in [Users -> InitialPositions] : Reset(w, ip)
    \/ \E du \in RateMaps(Users), ds \in RateMaps(Sensors) : MetricCall(du, ds)
    \/ MetricReturn
    \/ \E us \in UtilityMaps : UtilityCall(us)
    \/ UtilityReturn

SpecMetric == Init /\ [][NextMetric]_vars

\* C27 as stated: mean_datarate_sensor returns the mean of the sensors' macro rates,
\* and 0.0 exactly when no sensor has a macro rate, whatever the UEs' macro rates are
C27_MeanDatarateSensor ==
    (call.op = "mean_datarate_sensor" /\ call.state = "returned") =>
        call.ret = IF DOMAIN macro_sensor = {} THEN ZeroRate ELSE MeanRate(macro_sensor)

\* C28 as stated: from the scheduling of a timestep on, every UE in some station's
\* connection set is in the active list, and once the utilities are computed every
\* connected UE has a utility entry
C28_ConnectedAreActive ==
    /\ pc \in AfterScheduling =>
           \A u \in Users : StationsOf(u) # {} => u \in Range(active)
    /\ pc = "advance" =>
           \A u \in Users : StationsOf(u) # {} => u \in DOMAIN utilities

\* C30 as stated: when a timestep starts at time t, directly after reset or after
\* earlier timesteps, the active list holds exactly the UEs with stime <= t < extime,
\* in ascending id order and without duplicates
C30_ActiveAtStart ==
    pc = "connect" =>
        /\ Range(active) = {u \in Users : stime[u] <= time /\ time < extime[u]}
        /\ \A i, j \in 1..Len(active) : i < j => active[i] < active[j]

\* ------------------------------------------------- an episode one timestep longer
\* arrival and departure times that let a UE depart before the episode ends, let
\* the simulation run a timestep with no active UE, and let the episode end before
\* a UE arrives
LongWindows == {<<0, 1>>, <<0, MaxDeparture>>, <<2, MaxDeparture>>,
                <<MaxDeparture, MaxDeparture + 1>>}

\* the one action passed to step() and the one job size the sensors generate
LongAction == <<1, 1>>
LongSize == <<MaxDemand, MaxDemand>>

\* the simulation constructed with config["EP_MAX_TIME"] one timestep longer
InitLong == Construct(EP_MAX_TIME + 1)

\* reset() and step() with UEs that generate no job and stay where they are
NextLong ==
    \/ \E w \in [Users -> LongWindows], ip \in [Users -> InitialPositions] : Reset(w, ip)
    \/ StepCall(LongAction)
    \/ StepAssert
    \/ ConnectPhase
    \/ PrunePhase
    \/ GeneratePhase([u \in Users |-> NoJob], [x \in Sensors |-> LongSize])
    \/ SplitPhase(LongAction)
    \/ SchedulePhase
    \/ TransferPhase
    \/ ProcessPhase
    \/ AccountPhase
    \/ RewardPhase
    \/ AdvancePhase(pos)

SpecLong == InitLong /\ [][NextLong]_vars

\* C29 as stated: when a step() returns, a UE whose departure time was reached by the
\* timestep just executed (extime <= t), in this or an earlier step() of the episode,
\* is in no station's connection set
C29_DepartedStayOut ==
    (pc = "idle" /\ result.status = "ok") =>
        \A u \in Users : extime[u] <= time - 1 => StationsOf(u) = {}

\* the steps of a step() call in progress, in the longer episode
StepRuns ==
    \/ StepAssert
    \/ ConnectPhase
    \/ PrunePhase
    \/ GeneratePhase([u \in Users |-> NoJob], [x \in Sensors |-> LongSize])
    \/ SplitPhase(LongAction)
    \/ SchedulePhase
    \/ TransferPhase
    \/ ProcessPhase
    \/ AccountPhase
    \/ RewardPhase
    \/ AdvancePhase(pos)

\* a step() that was called runs on: the caller decides on reset() and step() calls,
\* the body of a call in progress is executed statement by statement
SpecLongFair == SpecLong /\ WF_vars(StepRuns)

\* C31: a step() call in progress always returns; it re-enters itself only after a
\* timestep that leaves no UE active and the episode not over, with time one higher
\* than in that timestep; while a timestep runs, time is below
\* min(EP_MAX_TIME, max_departure); and the assertion of a re-entry never fails
C31_StepTerminates ==
    /\ (pc \notin {"new", "idle"}) ~> (pc = "idle")
    /\ [][/\ pc' = "assert" =>
                 /\ pc = "advance"
                 /\ active' = <<>> /\ ~time_is_up'
                 /\ time' = time + 1
          /\ pc = "assert" => pc' = "connect" /\ result'.status = "running"
          /\ pc' \notin {"new", "idle"} => time' < Limit'
          /\ result'.status = "AssertionError" => result'.n = 0]_vars

\* a step() that returned after two re-entries because the episode was over, still
\* with no active UE
C31_Witness ==
    /\ pc = "idle" /\ result.status = "ok"
    /\ result.n = 3 /\ time = result.t0 + 3 /\ time = Limit
    /\ active = <<>>
    /\ Len(logs.reward_logs) = 3

\* C32 as stated: when an episode is truncated, the rewards that the caller's step()
\* calls returned sum up to the episode reward reported in info["episode"]["r"]
C32_ReturnedRewards ==
    (pc = "idle" /\ result.status = "ok" /\ result.ret.truncated) =>
        /\ Len(result.ret.episode) = 1
        /\ returned = result.ret.episode[1].r

\* C33: a successful step() returns terminated = False and truncated = True exactly
\* when time >= min(EP_MAX_TIME, max_departure) after it, with the episode reward in
\* info exactly then; and once that holds, a step() called without a reset() in
\* between fails its assertion and is not a successful step()
C33_Truncation ==
    /\ [](pc = "idle" /\ result.status = "ok" =>
            /\ result.ret.terminated = FALSE
            /\ result.ret.truncated = (time >= Limit)
            /\ result.ret.episode
                   = IF time >= Limit THEN <<[r |-> episode_reward]>> ELSE <<>>)
    /\ [][(pc = "idle" /\ time >= Limit /\ episodes' = episodes) =>
             (pc' = "idle" /\ result'.status = "AssertionError" /\ time' = time)]_vars

\* a step() that returned truncated = True with the episode reward, after an earlier
\* step() of the episode had returned
C33_Witness ==
    /\ pc = "idle" /\ result.status = "ok"
    /\ result.ret.truncated /\ result.ret.episode = <<[r |-> episode_reward]>>
    /\ result.t0 > 0 /\ episode_reward > result.reward

\* the six telemetry logs
LogsOf(l) ==
    <<l.resource_allocation_logs, l.queue_size_logs, l.delayed_packet_logs,
      l.total_delayed_packet_logs, l.aori_logs, l.reward_logs>>

\* C34: between timesteps, with n = time timesteps executed since the last reset
\* (skip-ahead timesteps included), each of the six logs has n entries whose time
\* entries are 0 .. n-1, and the k-th total-delayed entry is the sum of the first k
\* per-step delayed entries
C34_Logs ==
    (pc \in {"idle", "assert", "connect"}) =>
        /\ \A i \in 1..Len(LogsOf(logs)) :
              /\ Len(LogsOf(logs)[i]) = time
              /\ \A k \in 1..Len(LogsOf(logs)[i]) : LogsOf(logs)[i][k][1] = k - 1
        /\ \A k \in 1..Len(logs.total_delayed_packet_logs) :
              /\ logs.total_delayed_packet_logs[k][2]
                    = SumSeq([j \in 1..k |-> logs.delayed_packet_logs[j][2]])
              /\ logs.total_delayed_packet_logs[k][3]
                    = SumSeq([j \in 1..k |-> logs.delayed_packet_logs[j][3]])

\* one step() call that executed two timesteps, the second with a delayed job, so
\* that the logs have two entries and the total-delayed log ends above zero
C34_Witness ==
    /\ pc = "idle" /\ result.status = "ok" /\ result.n = 2 /\ time = 2
    /\ Len(logs.reward_logs) = 2 /\ Len(logs.resource_allocation_logs) = 2
    /\ logs.delayed_packet_logs[2][2] + logs.delayed_packet_logs[2][3] > 0
    /\ logs.total_delayed_packet_logs[2][2] + logs.total_delayed_packet_logs[2][3] > 0

\* the utility function's lower bound, sim.utility.lower, on the scaled range
UtilityLower == ScaledUtility(0)

\* C35 as stated: mean_utility_sensor never fails, and with no sensor utilities it
\* returns the utility function's lower bound
C35_MeanUtilitySensor ==
    (call.op = "mean_utility_sensor" /\ call.state = "returned") =>
        /\ call.raised = "none"
        /\ DOMAIN utilities_sensor = {} => call.ret = [sum |-> UtilityLower, n |-> 1]

====
